---- MODULE Spec2Model ----
(***************************************************************************)
(* Model of the tx-engine ledger: Account::apply_transaction (account.rs), *)
(* the fold Accounts::from_transaction_iter, and main's report             *)
(* (Accounts::to_csv).                                                     *)
(*                                                                         *)
(* Balances are f64 in the source.  Here an f64 is an integer count of     *)
(* units of 2^-MantBits, held in a binary floating-point format of         *)
(* MantBits significant bits whose smallest quantum is one unit, with      *)
(* round-to-nearest-even: `+`, `-`, `*` and `/` round as f64's do, whole   *)
(* numbers are exact and decimal fractions are not, at a width TLC can     *)
(* enumerate.  NaN and the infinities are outside the input domain.        *)
(***************************************************************************)
EXTENDS Integers, Sequences, FiniteSets, TLC

\* ---------------------------------------------------------------- bounds
\* longest input over several clients, and over client 1 alone
MaxEvents == 3
MaxDeep == 5
MantBits == 16
\* longest run of direct calls of apply_transaction on one account
MaxCalls == 3
\* balances rendered on their own: multiples of a little more than 1/64, up
\* to MaxBalance of them on either side of zero
MaxBalance == 100

Clients == {1, 2}
TxIds == {1, 2}
\* ------------------------------------------------------- f64 arithmetic
\* 2^MantBits: below it every integer count of units is representable
Pow == 2^MantBits

\* Option<f64>: <<>> is None, <<v>> is Some(v); a few units, and a little
\* more than 1.0, so that sums need more than MantBits bits
Amounts == {<<>>, <<3>>, <<Pow + 4>>, <<-3>>}

RECURSIVE Quantum(_, _)
\* spacing of the representable values around magnitude m
Quantum(m, q) == IF m \div q < Pow THEN q ELSE Quantum(m, 2 * q)

\* m rounded to a multiple of q, ties to the even multiple
RoundTo(m, q) ==
  IF 2 * (m % q) < q THEN (m \div q) * q
  ELSE IF 2 * (m % q) > q THEN (m \div q) * q + q
  ELSE IF (m \div q) % 2 = 0 THEN (m \div q) * q ELSE (m \div q) * q + q

RoundMag(m) == IF m < Pow THEN m ELSE RoundTo(m, Quantum(m, 1))

\* round-to-nearest, ties-to-even: the result of every f64 operation
Round(x) == IF x >= 0 THEN RoundMag(x) ELSE -RoundMag(-x)

\* x + y and x - y on f64
FAdd(x, y) == Round(x + y)
FSub(x, y) == Round(x - y)

\* x / d for integers x >= 0, d > 0, to the nearest integer, ties to even
RoundDiv(x, d) ==
  IF 2 * (x % d) < d THEN x \div d
  ELSE IF 2 * (x % d) > d THEN x \div d + 1
  ELSE IF (x \div d) % 2 = 0 THEN x \div d ELSE x \div d + 1

\* the f64 nearest to x / d units, for a whole number d > 0
NearestMag(x, d) ==
  LET q == Quantum(x \div d, 1) IN RoundDiv(x, d * q) * q
Nearest(x, d) == IF x >= 0 THEN NearestMag(x, d) ELSE -NearestMag(-x, d)

\* x * k and x / k on f64, for a whole number k > 0 that is an f64
FMul(x, k) == Round(x * k)
FDiv(x, k) == Nearest(x, k)

\* ---------------------------------------------------------- transaction
FundingTypes == {"Deposit", "Withdrawal"}
ReferenceTypes == {"Dispute", "Resolve", "Chargeback"}

Transaction(ty, c, t, a, d) ==
  [type_ |-> ty, client |-> c, tx |-> t, amount |-> a, disputed |-> d]

\* Transaction::amount
amount(tx) == IF tx.amount = <<>> THEN 0 ELSE tx.amount[1]
\* faulty variant: flagging a transaction loses its amount
dispute_drops_amount(tx) == [tx EXCEPT !.disputed = TRUE, !.amount = <<>>]
\* Transaction::dispute, Transaction::resolve
dispute(tx) == [tx EXCEPT !.disputed = TRUE]
\* faulty variant: the flag is left set
resolve_keeps_flag(tx) == tx
resolve(tx) == [tx EXCEPT !.disputed = FALSE]

\* the records the ingestion can yield
Events ==
  { Transaction(ty, c, t, a, FALSE) :
      ty \in FundingTypes, c \in Clients, t \in TxIds, a \in Amounts }
  \cup
  { Transaction(ty, c, t, <<>>, FALSE) :
      ty \in ReferenceTypes, c \in Clients, t \in TxIds }

\* -------------------------------------------------------------- account
EmptyMap == [x \in {} |-> 0]

\* HashMap::insert: the new value replaces a present one
insert(m, k, v) == [x \in DOMAIN m \cup {k} |-> IF x = k THEN v ELSE m[x]]

\* Account::new
Account_new(c) ==
  [client |-> c, transactions |-> EmptyMap,
   available |-> 0, held |-> 0, total |-> 0, locked |-> FALSE]

\* Account::freeze
freeze(acc) == [acc EXCEPT !.locked = TRUE]

\* results of apply_transaction: Ok, an AccountError variant, or a panic
Res(k, c, t) == [kind |-> k, client |-> c, tx |-> t]
BusinessErrors ==
  {"Withdrawal", "Dispute", "Resolve", "ResolveUndisputed",
   "Chargeback", "ChargebackUndisputed"}


\* what one call of apply_transaction leaves: the account, the result, and
\* whether every f64 operation of the call returned the mathematical result
Out(acc, k, tx, ex) ==
  [acc |-> acc, res |-> Res(k, acc.client, tx.tx), exact |-> ex]

\* `self.available += da; self.held += dh; self.total += dt` (0: not touched)
move(acc, da, dh, dt) ==
  [acc EXCEPT !.available = FAdd(acc.available, da),
              !.held = FAdd(acc.held, dh),
              !.total = FAdd(acc.total, dt)]

exact_move(acc, da, dh, dt) ==
  /\ FAdd(acc.available, da) = acc.available + da
  /\ FAdd(acc.held, dh) = acc.held + dh
  /\ FAdd(acc.total, dt) = acc.total + dt

\* self.transactions.insert(*tx.tx(), tx), panicking on a clash
store(acc, tx, ex) ==
  Out([acc EXCEPT !.transactions = insert(acc.transactions, tx.tx, tx)],
      IF tx.tx \in DOMAIN acc.transactions THEN "Panic" ELSE "Ok", tx, ex)

\* faulty variant: clearing a dispute also unlocks the account
mark_unlocks(acc, t, d) ==
  [acc EXCEPT !.transactions[t] =
     IF d THEN dispute(acc.transactions[t]) ELSE resolve(acc.transactions[t]),
              !.locked = IF d THEN acc.locked ELSE FALSE]

\* the referenced transaction with its disputed flag set or cleared
mark(acc, t, d) ==
  [acc EXCEPT !.transactions[t] =
     IF d THEN dispute(acc.transactions[t]) ELSE resolve(acc.transactions[t])]

\* faulty variant: a deposit without an amount faults
apply_deposit_amount_required(acc, tx) ==
  IF tx.amount = <<>>
  THEN Out(acc, "Panic", tx, TRUE)
  ELSE store(move(acc, amount(tx), 0, amount(tx)), tx,
             exact_move(acc, amount(tx), 0, amount(tx)))

\* apply_transaction, TransactionType::Deposit arm
apply_deposit(acc, tx) ==
  store(move(acc, amount(tx), 0, amount(tx)), tx,
        exact_move(acc, amount(tx), 0, amount(tx)))

\* faulty variant: debits before it checks the funds (mutate-then-fail)
apply_withdrawal_debits_first(acc, tx) ==
  IF acc.available < amount(tx)
  THEN Out(move(acc, -amount(tx), 0, -amount(tx)), "Withdrawal", tx, TRUE)
  ELSE store(move(acc, -amount(tx), 0, -amount(tx)), tx,
             exact_move(acc, -amount(tx), 0, -amount(tx)))

\* faulty variant: rejects a withdrawal of the whole available balance
apply_withdrawal_strictly_less(acc, tx) ==
  IF acc.available <= amount(tx)
  THEN Out(acc, "Withdrawal", tx, TRUE)
  ELSE store(move(acc, -amount(tx), 0, -amount(tx)), tx,
             exact_move(acc, -amount(tx), 0, -amount(tx)))

\* faulty variant: the funds are not checked
apply_withdrawal_unguarded(acc, tx) ==
  store(move(acc, -amount(tx), 0, -amount(tx)), tx,
        exact_move(acc, -amount(tx), 0, -amount(tx)))

\* faulty variant: a locked account refuses withdrawals
apply_withdrawal_refused_when_locked(acc, tx) ==
  IF acc.locked \/ acc.available < amount(tx)
  THEN Out(acc, "Withdrawal", tx, TRUE)
  ELSE store(move(acc, -amount(tx), 0, -amount(tx)), tx,
             exact_move(acc, -amount(tx), 0, -amount(tx)))

\* faulty variant: a rejected withdrawal is retained all the same
apply_withdrawal_retains_rejected(acc, tx) ==
  IF acc.available < amount(tx)
  THEN Out([acc EXCEPT !.transactions = insert(acc.transactions, tx.tx, tx)],
           "Withdrawal", tx, TRUE)
  ELSE store(move(acc, -amount(tx), 0, -amount(tx)), tx,
             exact_move(acc, -amount(tx), 0, -amount(tx)))

\* apply_transaction, TransactionType::Withdrawal arm
apply_withdrawal(acc, tx) ==
  IF acc.available < amount(tx)
  THEN Out(acc, "Withdrawal", tx, TRUE)
  ELSE store(move(acc, -amount(tx), 0, -amount(tx)), tx,
             exact_move(acc, -amount(tx), 0, -amount(tx)))

\* faulty variant: a disputed withdrawal is held without being restored to total
dispute_funds_total_forgotten(acc, d) ==
  IF d.type_ = "Deposit" THEN <<-amount(d), amount(d), 0>>
  ELSE <<0, amount(d), 0>>

\* the balance changes of a Dispute of stored transaction d
dispute_funds(acc, d) ==
  IF d.type_ = "Deposit" THEN <<-amount(d), amount(d), 0>>
  ELSE <<0, amount(d), amount(d)>>

\* faulty variant: a transaction under dispute cannot be disputed again
apply_dispute_once(acc, tx) ==
  IF tx.tx \notin DOMAIN acc.transactions
  THEN Out(acc, "Dispute", tx, TRUE)
  ELSE IF acc.transactions[tx.tx].disputed
  THEN Out(acc, "Dispute", tx, TRUE)
  ELSE LET m == dispute_funds(acc, acc.transactions[tx.tx]) IN
         Out(mark(move(acc, m[1], m[2], m[3]), tx.tx, TRUE), "Ok", tx,
             exact_move(acc, m[1], m[2], m[3]))

\* apply_transaction, TransactionType::Dispute arm
apply_dispute(acc, tx) ==
  IF tx.tx \notin DOMAIN acc.transactions
  THEN Out(acc, "Dispute", tx, TRUE)
  ELSE IF acc.transactions[tx.tx].type_ \notin FundingTypes
  THEN Out(acc, "Panic", tx, TRUE)
  ELSE LET m == dispute_funds(acc, acc.transactions[tx.tx]) IN
         Out(mark(move(acc, m[1], m[2], m[3]), tx.tx, TRUE), "Ok", tx,
             exact_move(acc, m[1], m[2], m[3]))

\* faulty variant: resolving a disputed withdrawal leaves total raised
resolve_funds_total_kept(acc, d) ==
  IF d.type_ = "Deposit" THEN <<amount(d), -amount(d), 0>>
  ELSE <<0, -amount(d), 0>>

\* faulty variant: resolving a disputed deposit leaves its amount held
resolve_funds_held_kept(acc, d) ==
  IF d.type_ = "Deposit" THEN <<amount(d), 0, 0>>
  ELSE <<0, -amount(d), -amount(d)>>

\* the balance changes of a Resolve of stored transaction d
resolve_funds(acc, d) ==
  IF d.type_ = "Deposit" THEN <<amount(d), -amount(d), 0>>
  ELSE <<0, -amount(d), -amount(d)>>

\* apply_transaction, TransactionType::Resolve arm
apply_resolve(acc, tx) ==
  IF tx.tx \notin DOMAIN acc.transactions
  THEN Out(acc, "Resolve", tx, TRUE)
  ELSE IF ~acc.transactions[tx.tx].disputed
  THEN Out(acc, "ResolveUndisputed", tx, TRUE)
  ELSE IF acc.transactions[tx.tx].type_ \notin FundingTypes
  THEN Out(acc, "Panic", tx, TRUE)
  ELSE LET m == resolve_funds(acc, acc.transactions[tx.tx]) IN
         Out(mark(move(acc, m[1], m[2], m[3]), tx.tx, FALSE), "Ok", tx,
             exact_move(acc, m[1], m[2], m[3]))

\* faulty variant: charging back a withdrawal leaves its amount held
chargeback_funds_held_kept(acc, d) ==
  IF d.type_ = "Deposit" THEN <<0, -amount(d), -amount(d)>>
  ELSE <<amount(d), 0, 0>>

\* faulty variant: charging back a withdrawal does not return its amount
chargeback_funds_not_returned(acc, d) ==
  IF d.type_ = "Deposit" THEN <<0, -amount(d), -amount(d)>>
  ELSE <<0, -amount(d), 0>>

\* the balance changes of a Chargeback of stored transaction d
chargeback_funds(acc, d) ==
  IF d.type_ = "Deposit" THEN <<0, -amount(d), -amount(d)>>
  ELSE <<amount(d), -amount(d), 0>>

\* faulty variant: a Chargeback of an undisputed transaction still freezes
apply_chargeback_freezes_first(acc, tx) ==
  IF tx.tx \notin DOMAIN acc.transactions
  THEN Out(acc, "Chargeback", tx, TRUE)
  ELSE IF ~acc.transactions[tx.tx].disputed
  THEN Out(freeze(acc), "ChargebackUndisputed", tx, TRUE)
  ELSE IF acc.transactions[tx.tx].type_ \notin FundingTypes
  THEN Out(acc, "Panic", tx, TRUE)
  ELSE LET m == chargeback_funds(acc, acc.transactions[tx.tx]) IN
         Out(freeze(mark(move(acc, m[1], m[2], m[3]), tx.tx, FALSE)), "Ok", tx,
             exact_move(acc, m[1], m[2], m[3]))

\* apply_transaction, TransactionType::Chargeback arm
apply_chargeback(acc, tx) ==
  IF tx.tx \notin DOMAIN acc.transactions
  THEN Out(acc, "Chargeback", tx, TRUE)
  ELSE IF ~acc.transactions[tx.tx].disputed
  THEN Out(acc, "ChargebackUndisputed", tx, TRUE)
  ELSE IF acc.transactions[tx.tx].type_ \notin FundingTypes
  THEN Out(acc, "Panic", tx, TRUE)
  ELSE LET m == chargeback_funds(acc, acc.transactions[tx.tx]) IN
         Out(freeze(mark(move(acc, m[1], m[2], m[3]), tx.tx, FALSE)), "Ok", tx,
             exact_move(acc, m[1], m[2], m[3]))

\* faulty variant: the event's client is not compared with the account's
apply_transaction_unchecked(acc, tx) ==
  CASE tx.type_ = "Deposit"    -> apply_deposit(acc, tx)
    [] tx.type_ = "Withdrawal" -> apply_withdrawal(acc, tx)
    [] tx.type_ = "Dispute"    -> apply_dispute(acc, tx)
    [] tx.type_ = "Resolve"    -> apply_resolve(acc, tx)
    [] tx.type_ = "Chargeback" -> apply_chargeback(acc, tx)

\* Account::apply_transaction
apply_transaction(acc, tx) ==
  IF tx.client # acc.client
  THEN Out(acc, "Panic", tx, TRUE)   \* "applied transaction on client .. to account .."
  ELSE CASE tx.type_ = "Deposit"    -> apply_deposit(acc, tx)
         [] tx.type_ = "Withdrawal" -> apply_withdrawal(acc, tx)
         [] tx.type_ = "Dispute"    -> apply_dispute(acc, tx)
         [] tx.type_ = "Resolve"    -> apply_resolve(acc, tx)
         [] tx.type_ = "Chargeback" -> apply_chargeback(acc, tx)


\* ----------------------------------------------------------- rendering
DECIMAL_PRECISION == 4
\* 1.0, in units
One == Pow
\* 10.0f64.powi(DECIMAL_PRECISION): a whole number, exact
Scale == 10^DECIMAL_PRECISION

\* f64::trunc: toward zero, exact (the result has no more bits than x)
trunc(x) == IF x >= 0 THEN (x \div One) * One ELSE -(((-x) \div One) * One)
\* f64::fract: self - self.trunc(), exact
fract(x) == x - trunc(x)

\* the f64 the field serializer hands to serialize_f64
serialize_f64_to_decimal_precision(num) ==
  LET int   == trunc(num)
      frac1 == FMul(fract(num), Scale)   \* frac *= 10.0f64.powi(4)
      frac2 == trunc(frac1)               \* frac = frac.trunc()
      frac3 == FDiv(frac2, Scale)         \* frac /= 10.0f64.powi(4)
  IN  FAdd(int, frac3)

\* the record serde writes for one Account (transactions is #[serde(skip)])
Row(acc) ==
  [client    |-> acc.client,
   available |-> serialize_f64_to_decimal_precision(acc.available),
   held      |-> serialize_f64_to_decimal_precision(acc.held),
   total     |-> serialize_f64_to_decimal_precision(acc.total),
   locked    |-> acc.locked]

\* faulty variant: an account that retains no transaction gets no record
to_csv_skips_empty(accs) ==
  { Row(accs[c]) : c \in {x \in DOMAIN accs : accs[x].transactions # EmptyMap} }

\* Accounts::to_csv: one record per value of the map
to_csv(accs) == { Row(accs[c]) : c \in DOMAIN accs }

\* ----------------------------------------------------------------- fold
\* accounts.entry(client).or_insert(Account::new(client))
entry_or_insert(accs, c) == IF c \in DOMAIN accs THEN accs[c] ELSE Account_new(c)

\* faulty variant: an insufficient-funds error aborts the fold even when lenient
fold_control_withdrawal_fatal(res, strict_) ==
  IF res.kind = "Ok" THEN "fold"
  ELSE IF res.kind = "Panic" THEN "panic"
  ELSE IF ~strict_ /\ res.kind \in BusinessErrors \ {"Withdrawal"} THEN "fold"
  ELSE "err"

\* faulty variant: business-rule errors are skipped whatever strict is
fold_control_always_lenient(res, strict_) ==
  IF res.kind = "Ok" THEN "fold"
  ELSE IF res.kind = "Panic" THEN "panic"
  ELSE IF res.kind \in BusinessErrors THEN "fold"
  ELSE "err"

\* what the loop body does after apply_transaction returned res
\* "fold": next iteration, "err": return Err(e), "panic": unwinding
fold_control(res, strict_) ==
  IF res.kind = "Ok" THEN "fold"
  ELSE IF res.kind = "Panic" THEN "panic"
  ELSE IF ~strict_ /\ res.kind \in BusinessErrors THEN "fold"
  ELSE "err"

\* faulty variant: the account enters the ledger only when the event succeeds
fold_step_insert_on_ok(accs, tx, strict_) ==
  LET out == apply_transaction(entry_or_insert(accs, tx.client), tx)
  IN  [accounts |-> IF out.res.kind \in BusinessErrors THEN accs
                    ELSE insert(accs, tx.client, out.acc),
       res      |-> out.res,
       exact    |-> out.exact,
       pc       |-> fold_control(out.res, strict_)]

\* faulty variant: a reference event whose id its own account does not retain
\* is applied to an account that does
fold_step_routes_by_tx(accs, tx, strict_) ==
  LET own    == entry_or_insert(accs, tx.client)
      owners == { c \in DOMAIN accs :
                    /\ tx.type_ \in ReferenceTypes
                    /\ tx.tx \notin DOMAIN own.transactions
                    /\ tx.tx \in DOMAIN accs[c].transactions }
      target == IF owners = {} THEN tx.client ELSE CHOOSE c \in owners : TRUE
      out    == apply_transaction(entry_or_insert(accs, target),
                                  [tx EXCEPT !.client = target])
  IN  [accounts |-> insert(insert(accs, tx.client, own), target, out.acc),
       res      |-> Res(out.res.kind, tx.client, tx.tx),
       exact    |-> out.exact,
       pc       |-> fold_control(out.res, strict_)]

\* one iteration of the loop of Accounts::from_transaction_iter on Ok(tx)
fold_step(accs, tx, strict_) ==
  LET out == apply_transaction(entry_or_insert(accs, tx.client), tx)
  IN  [accounts |-> insert(accs, tx.client, out.acc),
       res      |-> out.res,
       exact    |-> out.exact,
       pc       |-> fold_control(out.res, strict_)]

\* faulty variant: a lenient fold skips the record that failed to parse
parse_control_lenient(strict_) == IF strict_ THEN "err" ELSE "fold"

\* `let tx = tx?;` on Err(e) from tx_iter: return Err(e.into())
parse_control(strict_) == "err"

NoRes == Res("None", 0, 0)
NoAccount == Account_new(0)
NoChain == [stage |-> 0, key |-> <<0, 0>>, exact |-> TRUE, before |-> NoAccount]
NoEvent == Transaction("None", 0, 0, <<>>, FALSE)
ParseFailure == Transaction("ParseError", 0, 0, <<>>, FALSE)

VARIABLES
  accounts,   \* from_transaction_iter's local `accounts`
  strict,     \* its `strict` argument
  pc,         \* "fold" | "ok" | "done" | "err" | "panic"
  ret,        \* the ledger returned by Ok(accounts); EmptyMap until then
  err,        \* the error returned by Err(e); NoRes until then
  report,     \* the records to_csv has written
  n,          \* number of items taken from tx_iter
  last,       \* history: the last item taken and what apply_transaction returned
  shadow,     \* history: the ledger folded from the successful events only
  seen,       \* history: ids of the funding transactions yielded so far
  clients,    \* history: clients of the records yielded so far
  chargedback,\* history: (client, tx) of every successful Chargeback
  redisputed, \* history: those of chargedback disputed again since
  inexact,    \* history: clients one of whose balance updates has rounded
  prev,       \* history: the account the last record went to, before the call
  funded,     \* history: (client, tx) of every successful Deposit or Withdrawal
  stored,     \* history: the Deposit and Withdrawal events applied successfully
  doubled,    \* history: clients with a Dispute of a transaction already disputed
  chain,      \* history: the funding event, Dispute and Chargeback of one transaction in a row
  negative,   \* history: a record with a negative amount has been yielded
  depdisputed \* history: clients with a successful Dispute of one of their deposits

vars == <<accounts, strict, pc, ret, err, report, n, last, shadow, seen,
          clients, chargedback, redisputed, inexact, prev, funded, stored, doubled, chain, negative, depdisputed>>

Init ==
  /\ accounts = EmptyMap
  /\ strict \in BOOLEAN
  /\ pc = "fold"
  /\ ret = EmptyMap
  /\ err = NoRes
  /\ report = {}
  /\ n = 0
  /\ last = [ev |-> NoEvent, res |-> NoRes]
  /\ shadow = [ok |-> TRUE, accounts |-> EmptyMap]
  /\ seen = {}
  /\ clients = {}
  /\ chargedback = {}
  /\ redisputed = {}
  /\ inexact = {}
  /\ prev = NoAccount
  /\ funded = {}
  /\ stored = {}
  /\ doubled = {}
  /\ chain = NoChain
  /\ negative = FALSE
  /\ depdisputed = {}

\* the inputs explored: at most MaxEvents records, or at most MaxDeep records
\* that all belong to client 1
MoreInput(c) ==
  n < (IF c = 1 /\ DOMAIN accounts \subseteq {1} THEN MaxDeep ELSE MaxEvents)

\* the loop body for one record Ok(tx) of tx_iter
Apply(tx) ==
  /\ pc = "fold"
  /\ MoreInput(tx.client)
  /\ \E s \in {fold_step(accounts, tx, strict)} :
     \E sh \in {fold_step(shadow.accounts, tx, FALSE)} :
     LET ok == s.res.kind = "Ok"
         k  == <<tx.client, tx.tx>>
     IN  /\ accounts' = s.accounts
         /\ pc' = s.pc
         /\ err' = IF s.pc = "err" THEN s.res ELSE err
         /\ last' = [ev |-> tx, res |-> s.res]
         /\ shadow' = IF ok
                      THEN [ok |-> shadow.ok /\ sh.res.kind = "Ok",
                            accounts |-> sh.accounts]
                      ELSE shadow
         /\ seen' = IF tx.type_ \in FundingTypes THEN seen \cup {tx.tx} ELSE seen
         /\ clients' = clients \cup {tx.client}
         /\ chargedback' = IF ok /\ tx.type_ = "Chargeback"
                           THEN chargedback \cup {k} ELSE chargedback
         /\ redisputed' = IF ok /\ tx.type_ = "Chargeback" THEN redisputed \ {k}
                          ELSE IF ok /\ tx.type_ = "Dispute" /\ k \in chargedback
                          THEN redisputed \cup {k}
                          ELSE redisputed
         /\ inexact' = IF s.exact THEN inexact ELSE inexact \cup {tx.client}
         /\ prev' = entry_or_insert(accounts, tx.client)
         /\ funded' = IF ok /\ tx.type_ \in FundingTypes
                      THEN funded \cup {k} ELSE funded
         /\ stored' = IF ok /\ tx.type_ \in FundingTypes
                      THEN stored \cup {tx} ELSE stored
         /\ doubled' = IF /\ ok
                          /\ tx.type_ = "Dispute"
                          /\ tx.tx \in DOMAIN prev'.transactions
                          /\ prev'.transactions[tx.tx].disputed
                       THEN doubled \cup {tx.client} ELSE doubled
         /\ chain' = IF ok /\ tx.type_ \in FundingTypes
                     THEN [stage |-> 1, key |-> k, exact |-> s.exact,
                           before |-> entry_or_insert(accounts, tx.client)]
                     ELSE IF ok /\ tx.type_ = "Dispute"
                               /\ chain.stage = 1 /\ chain.key = k
                     THEN [chain EXCEPT !.stage = 2, !.exact = @ /\ s.exact]
                     ELSE IF ok /\ tx.type_ = "Chargeback"
                               /\ chain.stage = 2 /\ chain.key = k
                     THEN [chain EXCEPT !.stage = 3, !.exact = @ /\ s.exact]
                     ELSE NoChain
         /\ negative' = (negative \/ amount(tx) < 0)
         /\ depdisputed' = IF /\ ok
                              /\ tx.type_ = "Dispute"
                              /\ tx.tx \in DOMAIN prev'.transactions
                              /\ prev'.transactions[tx.tx].type_ = "Deposit"
                           THEN depdisputed \cup {tx.client} ELSE depdisputed
  /\ n' = n + 1
  /\ UNCHANGED <<strict, ret, report>>

Deposit == \E c \in Clients, t \in TxIds, a \in Amounts :
  Apply(Transaction("Deposit", c, t, a, FALSE))
Withdrawal == \E c \in Clients, t \in TxIds, a \in Amounts :
  Apply(Transaction("Withdrawal", c, t, a, FALSE))
Dispute == \E c \in Clients, t \in TxIds :
  Apply(Transaction("Dispute", c, t, <<>>, FALSE))
Resolve == \E c \in Clients, t \in TxIds :
  Apply(Transaction("Resolve", c, t, <<>>, FALSE))
Chargeback == \E c \in Clients, t \in TxIds :
  Apply(Transaction("Chargeback", c, t, <<>>, FALSE))

\* tx_iter yields Err(e): `let tx = tx?;` returns it, whatever strict is
ParseError ==
  /\ pc = "fold"
  /\ n < MaxEvents
  /\ pc' = parse_control(strict)
  /\ err' = IF pc' = "err" THEN Res("Transaction", 0, 0) ELSE err
  /\ last' = [ev |-> ParseFailure, res |-> Res("Transaction", 0, 0)]
  /\ n' = n + 1
  /\ UNCHANGED <<accounts, strict, ret, report, shadow, seen, clients, chargedback,
                 redisputed, inexact, prev, funded, stored, doubled, chain, negative, depdisputed>>

\* tx_iter is exhausted: Ok(accounts)
EndOfInput ==
  /\ pc = "fold"
  /\ pc' = "ok"
  /\ ret' = accounts
  /\ UNCHANGED <<accounts, strict, err, report, n, last, shadow, seen,
                 clients, chargedback, redisputed, inexact, prev, funded, stored, doubled, chain, negative, depdisputed>>

\* main: accounts.to_csv() on the ledger the fold returned
Render ==
  /\ pc = "ok"
  /\ report' = to_csv(ret)
  /\ pc' = "done"
  /\ UNCHANGED <<accounts, strict, ret, err, n, last, shadow, seen,
                 clients, chargedback, redisputed, inexact, prev, funded, stored, doubled, chain, negative, depdisputed>>

Next ==
  \/ Deposit
  \/ Withdrawal
  \/ Dispute
  \/ Resolve
  \/ Chargeback
  \/ ParseError
  \/ EndOfInput
  \/ Render

Spec == Init /\ [][Next]_vars

\* ------------------------------------------------- rendering alone
\* An Account built with given balances and serialized, as the unit test
\* serialize_long_floats does: to_csv on a ledger of that one account.
Balances == { Round(i * (Pow \div 64 + 1)) : i \in (-MaxBalance)..MaxBalance }

RenderInit ==
  /\ accounts = EmptyMap
  /\ strict \in BOOLEAN
  /\ pc = "ok"
  /\ \E a \in Balances, h \in {0, 3} :
       ret = insert(EmptyMap, 1,
                    [Account_new(1) EXCEPT !.available = a, !.held = h,
                                           !.total = FAdd(a, h)])
  /\ err = NoRes
  /\ report = {}
  /\ n = 0
  /\ last = [ev |-> NoEvent, res |-> NoRes]
  /\ shadow = [ok |-> TRUE, accounts |-> EmptyMap]
  /\ seen = {}
  /\ clients = {}
  /\ chargedback = {}
  /\ redisputed = {}
  /\ inexact = {}
  /\ prev = NoAccount
  /\ funded = {}
  /\ stored = {}
  /\ doubled = {}
  /\ chain = NoChain
  /\ negative = FALSE
  /\ depdisputed = {}

RenderSpec == RenderInit /\ [][Render]_vars

\* ------------------------------------------------- direct calls
\* A caller that owns the account of client 1 and passes it any event, of
\* either client, as the unit tests of account.rs do; what the call returns
\* is handled as the loop of from_transaction_iter handles it.
DirectInit ==
  /\ accounts = insert(EmptyMap, 1, Account_new(1))
  /\ strict \in BOOLEAN
  /\ pc = "fold"
  /\ ret = EmptyMap
  /\ err = NoRes
  /\ report = {}
  /\ n = 0
  /\ last = [ev |-> NoEvent, res |-> NoRes]
  /\ shadow = [ok |-> TRUE, accounts |-> EmptyMap]
  /\ seen = {}
  /\ clients = {}
  /\ chargedback = {}
  /\ redisputed = {}
  /\ inexact = {}
  /\ prev = NoAccount
  /\ funded = {}
  /\ stored = {}
  /\ doubled = {}
  /\ chain = NoChain
  /\ negative = FALSE
  /\ depdisputed = {}

\* account.apply_transaction(tx) on the account of client 1
Call(tx) ==
  /\ pc = "fold"
  /\ n < MaxCalls
  /\ \E out \in {apply_transaction(accounts[1], tx)} :
       /\ accounts' = insert(accounts, 1, out.acc)
       /\ pc' = fold_control(out.res, strict)
       /\ err' = IF pc' = "err" THEN out.res ELSE err
       /\ last' = [ev |-> tx, res |-> out.res]
       /\ inexact' = IF out.exact THEN inexact ELSE inexact \cup {1}
  /\ prev' = accounts[1]
  /\ n' = n + 1
  /\ UNCHANGED <<strict, ret, report, shadow, seen, clients, chargedback,
                 redisputed, funded, stored, doubled, chain, negative, depdisputed>>

DirectCall == \E tx \in Events : Call(tx)

DirectSpec == DirectInit /\ [][DirectCall]_vars


\* ---------------------------------------------------------------- claims
\* the step took a record from tx_iter and called apply_transaction on it
Applied == n' = n + 1 /\ last'.ev.type_ \in FundingTypes \cup ReferenceTypes
\* the account the last record was routed to, before and after the call
Before == entry_or_insert(accounts, last'.ev.client)
After == accounts'[last'.ev.client]
Succeeded == last.res.kind = "Ok"
Failed == last.res.kind \in BusinessErrors

\* C1 (as stated): after every successfully applied event the account's
\* total == available + held, compared as the f64 values they are.
C1_TotalIsSum ==
  Succeeded =>
    LET acc == accounts[last.ev.client]
    IN  acc.total = FAdd(acc.available, acc.held)

\* C1 (amended): total == available + held in every account after every
\* successfully applied event, as long as no f64 addition or subtraction on
\* that account's balances has rounded.
C1_TotalIsSumWhileExact ==
  \A c \in DOMAIN accounts :
    (pc # "panic" /\ c \notin inexact) =>
      /\ accounts[c].total = accounts[c].available + accounts[c].held
      /\ accounts[c].total = FAdd(accounts[c].available, accounts[c].held)

\* a disputed withdrawal and an undisputed deposit side by side, nothing rounded
C1_Witness ==
  /\ Succeeded
  /\ 1 \in DOMAIN accounts
  /\ 1 \notin inexact
  /\ accounts[1].held # 0
  /\ accounts[1].available # 0
  /\ \E t \in DOMAIN accounts[1].transactions :
       /\ accounts[1].transactions[t].type_ = "Withdrawal"
       /\ accounts[1].transactions[t].disputed


\* C2: whenever apply_transaction returns a business-rule error, the account
\* it was called on is exactly as before the call: balances, lock, the set of
\* retained transactions and their disputed flags.
C2_ErrorLeavesAccount ==
  [][(Applied /\ last'.res.kind \in BusinessErrors) => After = Before]_vars

\* a Resolve of an undisputed transaction, on an account holding other funds
C2_Witness ==
  /\ last.res.kind = "ResolveUndisputed"
  /\ accounts[last.ev.client].held # 0
  /\ accounts[last.ev.client].available # 0

\* C3: locked starts false, becomes true only by a successful Chargeback on
\* that account, and once true stays true through every later event.
Locked(accs, c) == c \in DOMAIN accs /\ accs[c].locked
C3_LockedMonotonic ==
  [][\A c \in Clients :
       /\ Locked(accounts, c) => Locked(accounts', c)
       /\ (~Locked(accounts, c) /\ Locked(accounts', c)) =>
            /\ Applied
            /\ last'.ev.type_ = "Chargeback"
            /\ last'.ev.client = c
            /\ last'.res.kind = "Ok"]_vars

\* a locked account that has just had a dispute resolved
C3_Witness ==
  /\ Succeeded
  /\ last.ev.type_ = "Resolve"
  /\ Locked(accounts, last.ev.client)

\* C4: with strict = false the fold skips every event that fails with a
\* business-rule error and ends Ok; each account of the returned ledger equals
\* what folding only the successful events gives it.
C4_NonStrictSkips ==
  ~strict =>
    /\ Failed => pc \in {"fold", "ok", "done"}
    /\ pc = "err" => err.kind = "Transaction"
    /\ pc \in {"ok", "done"} =>
         /\ shadow.ok
         /\ DOMAIN shadow.accounts \subseteq DOMAIN ret
         /\ \A c \in DOMAIN ret : ret[c] = entry_or_insert(shadow.accounts, c)

\* an overdrawing withdrawal, then a deposit: the ledger shows only the deposit
C4_Witness ==
  /\ ~strict
  /\ pc = "ok"
  /\ n = 2
  /\ seen = {1, 2}
  /\ last.ev = Transaction("Deposit", 1, 2, <<Pow + 4>>, FALSE)
  /\ DOMAIN ret = {1}
  /\ DOMAIN ret[1].transactions = {2}
  /\ ret[1].available = Pow + 4
  /\ ret[1].total = Pow + 4

\* C5 (as stated): in non-strict mode the report is identical, rows and
\* values, to the report of the input with the failing events deleted.
C5_ReportAsIfDeleted ==
  (pc = "done" /\ ~strict) => report = to_csv(shadow.accounts)

\* C5 (amended): in non-strict mode the report is the report of the input with
\* the failing events deleted, plus one all-zero unlocked row for every client
\* all of whose events failed.
C5_ReportAsIfDeletedPlusEmptyRows ==
  (pc = "done" /\ ~strict) =>
    /\ shadow.ok
    /\ report = to_csv(shadow.accounts) \cup
                { Row(Account_new(c)) : c \in clients \ DOMAIN shadow.accounts }

\* client 2 only ever failed and is reported next to client 1's balance
C5_Witness ==
  /\ pc = "done"
  /\ ~strict
  /\ clients = {1, 2}
  /\ DOMAIN shadow.accounts = {1}
  /\ Row(Account_new(2)) \in report
  /\ \E r \in report : r.client = 1 /\ r.available # 0

\* C6: with strict = true the fold stops at the first business-rule error
\* and returns it: nothing is applied after it, no ledger is returned and no
\* report row is written.
C6_StrictAborts ==
  strict =>
    /\ Failed => pc = "err"
    /\ pc = "err" =>
         /\ err = last.res
         /\ ret = EmptyMap
         /\ report = {}

\* a strict fold aborted by a withdrawal after a deposit had been applied
C6_Witness ==
  /\ strict
  /\ pc = "err"
  /\ err.kind = "Withdrawal"
  /\ n = 2
  /\ accounts[err.client].available # 0

\* C7: a parse failure at any position makes the fold return that error at
\* once, strict or not: nothing later is applied and no report is written.
C7_ParseFailureFatal ==
  last.ev = ParseFailure =>
    /\ pc = "err"
    /\ err = Res("Transaction", 0, 0)
    /\ err = last.res
    /\ ret = EmptyMap
    /\ report = {}

\* a lenient fold hit by a parse failure after two records were applied
C7_Witness ==
  /\ ~strict
  /\ last.ev = ParseFailure
  /\ n = 3
  /\ \E c \in DOMAIN accounts : accounts[c].available # 0

\* C8 (as stated): a funding transaction whose id an earlier funding
\* transaction of the stream carried, under any client, ends in a panic.
C8_DuplicateIdFaults ==
  [][(Applied /\ last'.ev.type_ \in FundingTypes /\ last'.ev.tx \in seen)
       => last'.res.kind = "Panic"]_vars

\* the key of the reference event just applied
LastKey == <<last'.ev.client, last'.ev.tx>>
Undisputed == {"ResolveUndisputed", "ChargebackUndisputed"}

\* C9 (as stated): once a Chargeback of a retained transaction has succeeded,
\* every later Resolve or Chargeback of it is rejected as undisputed, whatever
\* happens in between.
C9_ChargebackFinal ==
  [][(Applied /\ last'.ev.type_ \in {"Resolve", "Chargeback"}
        /\ LastKey \in chargedback)
       => last'.res.kind \in Undisputed]_vars

\* C9 (amended): ... is rejected as undisputed unless a Dispute of that
\* transaction has succeeded since the Chargeback.
C9_ChargebackFinalUntilDisputed ==
  [][(Applied /\ last'.ev.type_ \in {"Resolve", "Chargeback"}
        /\ LastKey \in chargedback \ redisputed)
       => last'.res.kind \in Undisputed]_vars

\* a Resolve rejected because its transaction was charged back
C9_Witness ==
  /\ last.ev.type_ = "Resolve"
  /\ last.res.kind = "ResolveUndisputed"
  /\ <<last.ev.client, last.ev.tx>> \in chargedback \ redisputed

\* the effect of a successful withdrawal of a, retained under id t
Withdrawn(a, t) ==
  /\ last'.res.kind = "Ok"
  /\ After.available = FSub(Before.available, a)
  /\ After.total = FSub(Before.total, a)
  /\ After.held = Before.held
  /\ After.locked = Before.locked
  /\ After.transactions = insert(Before.transactions, t, last'.ev)
  /\ ~After.transactions[t].disputed

\* C10 (as stated): a Withdrawal succeeds exactly when available >= amount,
\* debiting available and total and being retained undisputed; otherwise it
\* fails with insufficient funds (client, tx) and is not retained.
C10_Withdrawal ==
  [][(Applied /\ last'.ev.type_ = "Withdrawal") =>
       IF Before.available >= amount(last'.ev)
       THEN Withdrawn(amount(last'.ev), last'.ev.tx)
       ELSE /\ last'.res = Res("Withdrawal", last'.ev.client, last'.ev.tx)
            /\ last'.ev.tx \notin DOMAIN After.transactions]_vars

\* C10 (amended): a Withdrawal whose id the account does not yet retain
\* succeeds exactly when available >= amount (with a retained id and
\* available >= amount it panics); when available < amount it fails with
\* insufficient funds (client, tx) and the account is unchanged.
C10_WithdrawalOfFreshId ==
  [][(Applied /\ last'.ev.type_ = "Withdrawal") =>
       IF Before.available >= amount(last'.ev)
       THEN IF last'.ev.tx \in DOMAIN Before.transactions
            THEN last'.res.kind = "Panic"
            ELSE Withdrawn(amount(last'.ev), last'.ev.tx)
       ELSE /\ last'.res = Res("Withdrawal", last'.ev.client, last'.ev.tx)
            /\ After = Before]_vars

\* a withdrawal of the whole available balance, retained next to the deposit
C10_Witness ==
  /\ Succeeded
  /\ last.ev.type_ = "Withdrawal"
  /\ amount(last.ev) > 0
  /\ accounts[last.ev.client].available = 0
  /\ DOMAIN accounts[last.ev.client].transactions = {1, 2}

\* the transaction a reference event names, as its account retained it
\* before the call, and the retained map with that entry's flag set to f
Retained == last'.ev.tx \in DOMAIN Before.transactions
Referenced == Before.transactions[last'.ev.tx]
Flagged(f) ==
  [Before.transactions EXCEPT ![last'.ev.tx] = [Referenced EXCEPT !.disputed = f]]
\* the balances after the call are those before it with da, dh and dt added
Moved(da, dh, dt) ==
  /\ After.available = FAdd(Before.available, da)
  /\ After.held = FAdd(Before.held, dh)
  /\ After.total = FAdd(Before.total, dt)
\* the call returned the error kind k carrying (client, tx) and changed nothing
Rejected(k) ==
  /\ last'.res = Res(k, last'.ev.client, last'.ev.tx)
  /\ After = Before

\* C11: a Deposit whose id its account does not yet retain never fails,
\* whether the account is locked or not: available and total each grow by the
\* amount (by 0 when the amount is absent), held and locked are unchanged, and
\* the deposit is retained with disputed = false.
C11_Deposit ==
  [][(Applied /\ last'.ev.type_ = "Deposit" /\ ~Retained) =>
       /\ last'.res.kind = "Ok"
       /\ Moved(amount(last'.ev), 0, amount(last'.ev))
       /\ last'.ev.amount = <<>> =>
            /\ After.available = Before.available
            /\ After.total = Before.total
       /\ After.held = Before.held
       /\ After.locked = Before.locked
       /\ After.transactions = insert(Before.transactions, last'.ev.tx, last'.ev)
       /\ ~After.transactions[last'.ev.tx].disputed]_vars

\* a deposit without an amount, accepted by a locked account
C11_Witness ==
  /\ Succeeded
  /\ last.ev.type_ = "Deposit"
  /\ last.ev.amount = <<>>
  /\ prev.locked
  /\ accounts[last.ev.client].locked
  /\ last.ev.tx \in DOMAIN accounts[last.ev.client].transactions
  /\ last.ev.tx \notin DOMAIN prev.transactions

\* C12: a Dispute of a retained transaction always succeeds (disputed or not
\* before): it marks the transaction disputed and applies available -= amt,
\* held += amt for a deposit, held += amt, total += amt for a withdrawal; a
\* Dispute of a transaction that is not retained fails with dispute-not-found
\* (client, tx).
C12_Dispute ==
  [][(Applied /\ last'.ev.type_ = "Dispute") =>
       IF Retained
       THEN /\ last'.res.kind = "Ok"
            /\ After.transactions = Flagged(TRUE)
            /\ After.locked = Before.locked
            /\ IF Referenced.type_ = "Deposit"
               THEN Moved(-amount(Referenced), amount(Referenced), 0)
               ELSE Moved(0, amount(Referenced), amount(Referenced))
       ELSE Rejected("Dispute")]_vars

\* a second Dispute of a deposit that was already under dispute
C12_Witness ==
  /\ Succeeded
  /\ last.ev.type_ = "Dispute"
  /\ prev.transactions[last.ev.tx].disputed
  /\ prev.transactions[last.ev.tx].type_ = "Deposit"
  /\ amount(prev.transactions[last.ev.tx]) > 0
  /\ accounts[last.ev.client].held > prev.held

\* C13: a Resolve succeeds exactly when the referenced transaction is retained
\* and disputed: it clears the flag, applies available += amt, held -= amt for
\* a deposit or held -= amt, total -= amt for a withdrawal, and leaves locked;
\* not retained gives resolve-not-found, retained but undisputed gives
\* resolve-undisputed.
C13_Resolve ==
  [][(Applied /\ last'.ev.type_ = "Resolve") =>
       IF ~Retained THEN Rejected("Resolve")
       ELSE IF ~Referenced.disputed THEN Rejected("ResolveUndisputed")
       ELSE /\ last'.res.kind = "Ok"
            /\ After.transactions = Flagged(FALSE)
            /\ After.locked = Before.locked
            /\ IF Referenced.type_ = "Deposit"
               THEN Moved(amount(Referenced), -amount(Referenced), 0)
               ELSE Moved(0, -amount(Referenced), -amount(Referenced))]_vars

\* a disputed withdrawal resolved: total is lowered again
C13_Witness ==
  /\ Succeeded
  /\ last.ev.type_ = "Resolve"
  /\ prev.transactions[last.ev.tx].type_ = "Withdrawal"
  /\ prev.transactions[last.ev.tx].disputed
  /\ accounts[last.ev.client].total < prev.total
  /\ ~accounts[last.ev.client].transactions[last.ev.tx].disputed

\* C14: a Chargeback succeeds exactly when the referenced transaction is
\* retained and disputed: it clears the flag, locks the account and applies
\* held -= amt, total -= amt for a deposit or available += amt, held -= amt for
\* a withdrawal; not retained gives chargeback-not-found, retained but
\* undisputed gives chargeback-undisputed, and neither failure locks the account.
C14_Chargeback ==
  [][(Applied /\ last'.ev.type_ = "Chargeback") =>
       IF ~Retained
       THEN Rejected("Chargeback") /\ After.locked = Before.locked
       ELSE IF ~Referenced.disputed
       THEN Rejected("ChargebackUndisputed") /\ After.locked = Before.locked
       ELSE /\ last'.res.kind = "Ok"
            /\ After.transactions = Flagged(FALSE)
            /\ After.locked
            /\ IF Referenced.type_ = "Deposit"
               THEN Moved(0, -amount(Referenced), -amount(Referenced))
               ELSE Moved(amount(Referenced), -amount(Referenced), 0)]_vars

\* a disputed withdrawal charged back: the funds return and the account locks
C14_Witness ==
  /\ Succeeded
  /\ last.ev.type_ = "Chargeback"
  /\ prev.transactions[last.ev.tx].type_ = "Withdrawal"
  /\ ~prev.locked
  /\ accounts[last.ev.client].locked
  /\ accounts[last.ev.client].available > prev.available
  /\ accounts[last.ev.client].total = prev.total

\* the step is a successful Resolve that directly follows the successful
\* Dispute of the same transaction, which was undisputed before that Dispute
DisputeThenResolve ==
  /\ Applied
  /\ last'.ev.type_ = "Resolve"
  /\ last'.res.kind = "Ok"
  /\ last.ev.type_ = "Dispute"
  /\ last.res.kind = "Ok"
  /\ last.ev.client = last'.ev.client
  /\ last.ev.tx = last'.ev.tx
  /\ ~prev.transactions[last.ev.tx].disputed

\* C15 (as stated): Dispute then Resolve of a retained, undisputed funding
\* transaction brings available, held, total, locked and the disputed flag
\* back to their values before the Dispute, from any account state.
C15_RoundTrip ==
  [][DisputeThenResolve => After = prev]_vars

\* the balance changes of the Dispute and of the Resolve of d were all exact
ExactRoundTrip(d) ==
  LET m == dispute_funds(prev, d)
      r == resolve_funds(Before, d)
  IN  /\ exact_move(prev, m[1], m[2], m[3])
      /\ exact_move(Before, r[1], r[2], r[3])

\* C15 (amended): locked, the disputed flag and the retained map are always
\* back; available, held and total are back whenever none of the f64
\* operations of the two events has rounded.
C15_RoundTripWhileExact ==
  [][DisputeThenResolve =>
       /\ After.locked = prev.locked
       /\ After.transactions = prev.transactions
       /\ ExactRoundTrip(prev.transactions[last.ev.tx]) => After = prev]_vars

\* a withdrawal disputed and resolved on an account that still has funds
C15_Witness ==
  /\ Succeeded
  /\ last.ev.type_ = "Resolve"
  /\ prev.transactions[last.ev.tx].type_ = "Withdrawal"
  /\ amount(prev.transactions[last.ev.tx]) > 0
  /\ accounts[last.ev.client].available > 0
  /\ accounts[last.ev.client].held = 0
  /\ accounts[last.ev.client].total = accounts[last.ev.client].available

\* C16: apply_transaction called with an event of another client than the
\* account's panics, whatever the event's type and the account's state: it
\* returns neither Ok nor an AccountError, the account is not changed, and the
\* caller's strict or lenient handling of errors is never reached.
C16_WrongClientPanics ==
  [][(Applied /\ last'.ev.client # prev'.client) =>
       /\ last'.res.kind = "Panic"
       /\ pc' = "panic"
       /\ accounts' = accounts]_vars

\* a lenient caller: a Chargeback of client 2 against client 1's disputed deposit
C16_Witness ==
  /\ ~strict
  /\ pc = "panic"
  /\ last.ev.type_ = "Chargeback"
  /\ last.ev.client = 2
  /\ prev.client = 1
  /\ last.ev.tx \in DOMAIN prev.transactions
  /\ prev.transactions[last.ev.tx].disputed
  /\ ~accounts[1].locked

\* C17: the ledger holds one account for every client that appears in a
\* record of the input, from the record on (also when that record fails and
\* is skipped) and for good; after a fold that returned Ok the report has
\* exactly one record per account, locked or not, with or without a valid event.
C17_OneAccountPerClient ==
  /\ DOMAIN accounts = clients
  /\ pc \in {"ok", "done"} => DOMAIN ret = clients
  /\ pc = "done" =>
       /\ { r.client : r \in report } = clients
       /\ Cardinality(report) = Cardinality(clients)
       /\ \A c \in clients : Row(ret[c]) \in report

\* two records: client 1's balance and an account no valid event ever reached
C17_Witness ==
  /\ pc = "done"
  /\ Cardinality(report) = 2
  /\ \E c \in DOMAIN ret :
       /\ ret[c] = Account_new(c)
       /\ Row(ret[c]) \in report
  /\ \E c \in DOMAIN ret : ret[c].transactions # EmptyMap

\* num with every digit beyond the DECIMAL_PRECISION-th decimal place dropped,
\* as the f64 that is printed as that decimal (the nearest one)
Dropped(num) ==
  LET a   == IF num >= 0 THEN num ELSE -num
      int == trunc(a)
      k   == (fract(a) * Scale) \div One
      q   == Quantum(int + (k * One) \div Scale, 1)
      m   == int + RoundDiv(k * One, Scale * q) * q
  IN  IF num >= 0 THEN m ELSE -m

\* C18 (as stated): each rendered balance is the balance truncated to four
\* fractional digits, for available, held and total alike.
C18_Truncates ==
  pc = "done" =>
    \A c \in DOMAIN ret :
      [client    |-> c,
       available |-> Dropped(ret[c].available),
       held      |-> Dropped(ret[c].held),
       total     |-> Dropped(ret[c].total),
       locked    |-> ret[c].locked] \in report

\* C19: a record of client A, applied or rejected, leaves every other account
\* of the ledger as it was (balances, lock, retained transactions) and adds no
\* account but A's; a Dispute, Resolve or Chargeback of A naming an id that A's
\* account does not retain fails with its not-found error, also when another
\* client's account retains that id.
C19_Isolation ==
  [][Applied =>
       /\ DOMAIN accounts' = DOMAIN accounts \cup {last'.ev.client}
       /\ \A c \in DOMAIN accounts \ {last'.ev.client} : accounts'[c] = accounts[c]
       /\ (last'.ev.type_ \in ReferenceTypes /\ ~Retained) =>
            Rejected(last'.ev.type_)]_vars

\* client 1 disputes an id that only client 2's account retains
C19_Witness ==
  /\ last.ev.type_ = "Dispute"
  /\ last.res = Res("Dispute", 1, last.ev.tx)
  /\ DOMAIN accounts = {1, 2}
  /\ last.ev.tx \notin DOMAIN accounts[1].transactions
  /\ last.ev.tx \in DOMAIN accounts[2].transactions
  /\ ~accounts[2].transactions[last.ev.tx].disputed
  /\ accounts[2].available # 0
  /\ accounts[2].held = 0

\* C20: a Dispute, Resolve or Chargeback succeeds only if a Deposit or
\* Withdrawal of the same client and id succeeded earlier in the input;
\* without one it fails with its not-found error and changes nothing, so a
\* reference placed before its funding event, or naming a rejected withdrawal,
\* has no effect, then or later: the retained ids of each account are those of
\* its successful funding events, and a funding event enters undisputed.
C20_InputOrder ==
  [][Applied =>
       /\ (last'.ev.type_ \in ReferenceTypes /\ last'.res.kind = "Ok") =>
            LastKey \in funded
       /\ (last'.ev.type_ \in ReferenceTypes /\ LastKey \notin funded) =>
            Rejected(last'.ev.type_)
       /\ (last'.ev.type_ = "Withdrawal" /\ last'.res.kind = "Withdrawal"
             /\ LastKey \notin funded) => LastKey \notin funded'
       /\ (last'.ev.type_ \in FundingTypes /\ last'.res.kind = "Ok") =>
            /\ LastKey \in funded'
            /\ ~After.transactions[last'.ev.tx].disputed
            /\ After.held = Before.held
       /\ pc' # "panic" =>
            \A c \in DOMAIN accounts' :
              DOMAIN accounts'[c].transactions = { t \in TxIds : <<c, t>> \in funded' }]_vars

\* a Resolve naming a withdrawal that was rejected earlier: not found
C20_Witness ==
  /\ last.ev.type_ = "Resolve"
  /\ last.res.kind = "Resolve"
  /\ clients = {last.ev.client}
  /\ seen = {last.ev.tx}
  /\ funded = {}
  /\ n >= 2
  /\ accounts[last.ev.client] = Account_new(last.ev.client)

\* what apply_transaction returns for the same event on the account that
\* differs from Before in locked only
Twin == apply_transaction([Before EXCEPT !.locked = ~Before.locked], last'.ev)

\* C21: locked never influences processing: on two accounts that differ in
\* locked only, every event gives the same Ok or error and the same
\* available, held, total and retained transactions.
C21_LockedIgnored ==
  [][Applied =>
       \E tw \in {Twin} : \E af \in {After} :
         /\ tw.res = last'.res
         /\ tw.acc.available = af.available
         /\ tw.acc.held = af.held
         /\ tw.acc.total = af.total
         /\ tw.acc.transactions = af.transactions
         /\ tw.acc.locked = IF last'.ev.type_ = "Chargeback" /\ last'.res.kind = "Ok"
                            THEN af.locked ELSE ~af.locked]_vars

\* a locked account that has just paid out a withdrawal
C21_Witness ==
  /\ Succeeded
  /\ last.ev.type_ = "Withdrawal"
  /\ amount(last.ev) > 0
  /\ prev.locked
  /\ accounts[last.ev.client].available < prev.available

\* the transactions account c retains, each with its disputed flag cleared
RetainedEvents(c) ==
  { [accounts[c].transactions[t] EXCEPT !.disputed = FALSE] :
      t \in DOMAIN accounts[c].transactions }

\* C22: in every state of the fold each ledger entry is keyed by its account's
\* client, and each account retains exactly the Deposit and Withdrawal events
\* applied to it successfully, each under its own id with client, type and
\* amount as yielded; no reference event is retained, and a panic of
\* apply_transaction is never the wrong-client fault nor the fault for a
\* retained transaction that is neither a deposit nor a withdrawal.
C22_RetainedMap ==
  /\ \A c \in DOMAIN accounts :
       /\ accounts[c].client = c
       /\ \A t \in DOMAIN accounts[c].transactions :
            /\ accounts[c].transactions[t].tx = t
            /\ accounts[c].transactions[t].client = c
            /\ accounts[c].transactions[t].type_ \in FundingTypes
       /\ pc # "panic" =>
            /\ RetainedEvents(c) = { e \in stored : e.client = c }
            /\ Cardinality(DOMAIN accounts[c].transactions)
                 = Cardinality({ e \in stored : e.client = c })
  /\ last.res.kind = "Panic" =>
       /\ last.ev.client = prev.client
       /\ last.ev.type_ \in FundingTypes
       /\ last.ev.tx \in DOMAIN prev.transactions

\* two retained events, one of them under dispute, after a rejected Chargeback
C22_Witness ==
  /\ last.res.kind = "ChargebackUndisputed"
  /\ Cardinality(stored) = 2
  /\ Cardinality(DOMAIN accounts[last.ev.client].transactions) = 2
  /\ \E t \in DOMAIN accounts[last.ev.client].transactions :
       /\ accounts[last.ev.client].transactions[t].disputed
       /\ accounts[last.ev.client].transactions[t].type_ = "Withdrawal"
       /\ accounts[last.ev.client].transactions[t].amount # <<>>

RECURSIVE SumAmounts(_, _)
\* the sum of the amounts of the transactions of map m with ids in S
SumAmounts(m, S) ==
  IF S = {} THEN 0
  ELSE LET t == CHOOSE x \in S : TRUE
       IN  amount(m[t]) + SumAmounts(m, S \ {t})

\* the sum of the amounts of the transactions of acc that are under dispute
DisputedSum(acc) ==
  SumAmounts(acc.transactions,
             { t \in DOMAIN acc.transactions : acc.transactions[t].disputed })

\* C23 (as stated): in every state an account's held is the sum of the
\* amounts of its retained transactions whose disputed flag is set.
C23_HeldIsDisputedSum ==
  \A c \in DOMAIN accounts :
    pc # "panic" => accounts[c].held = Round(DisputedSum(accounts[c]))

\* C23 (amended): held is that sum as long as no Dispute has succeeded on a
\* transaction of the account that was already under dispute, and no f64
\* operation on the account's balances has rounded.
C23_HeldIsDisputedSumOnce ==
  \A c \in DOMAIN accounts :
    (pc # "panic" /\ c \notin doubled /\ c \notin inexact) =>
      accounts[c].held = DisputedSum(accounts[c])

\* a deposit and a withdrawal both under dispute, held being their sum
C23_Witness ==
  /\ Succeeded
  /\ last.ev.type_ = "Dispute"
  /\ last.ev.client \notin doubled
  /\ last.ev.client \notin inexact
  /\ \A t \in TxIds :
       /\ t \in DOMAIN accounts[last.ev.client].transactions
       /\ accounts[last.ev.client].transactions[t].disputed
       /\ amount(accounts[last.ev.client].transactions[t]) > 0
  /\ \E t \in TxIds : accounts[last.ev.client].transactions[t].type_ = "Withdrawal"
  /\ accounts[last.ev.client].held > 3

\* the last three records were a funding event, its Dispute and its
\* Chargeback, all successful
ChargedBackAtOnce == chain.stage = 3
ChainAccount == accounts[chain.key[1]]

\* C24 (as stated): after a funding event, its Dispute and its Chargeback in
\* a row, available and total are back to their values just before the
\* funding event, held to its value before the Dispute, and the account is
\* locked.
C24_ChargebackUndoes ==
  ChargedBackAtOnce =>
    /\ ChainAccount.available = chain.before.available
    /\ ChainAccount.total = chain.before.total
    /\ ChainAccount.held = chain.before.held
    /\ ChainAccount.locked

\* C24 (amended): the account is locked; available, total and held are back
\* whenever none of the f64 operations of the three events has rounded.
C24_ChargebackUndoesWhileExact ==
  ChargedBackAtOnce =>
    /\ ChainAccount.locked
    /\ chain.exact =>
         /\ ChainAccount.available = chain.before.available
         /\ ChainAccount.total = chain.before.total
         /\ ChainAccount.held = chain.before.held

\* a withdrawal of all the funds, disputed and charged back, nothing rounded
C24_Witness ==
  /\ ChargedBackAtOnce
  /\ chain.exact
  /\ ChainAccount.transactions[chain.key[2]].type_ = "Withdrawal"
  /\ amount(ChainAccount.transactions[chain.key[2]]) > 0
  /\ ChainAccount.available = amount(ChainAccount.transactions[chain.key[2]])
  /\ ChainAccount.held = 0
  /\ ~chain.before.locked

\* C25 (as stated): when no amount of the input is negative, no account's
\* available is ever negative.
C25_AvailableNonNegative ==
  ~negative => \A c \in DOMAIN accounts : accounts[c].available >= 0

\* C25 (amended): when no amount of the input is negative, an account's
\* available is not negative as long as no Dispute of one of its deposits has
\* succeeded.
C25_AvailableNonNegativeUntilDeposit ==
  ~negative =>
    \A c \in DOMAIN accounts \ depdisputed : accounts[c].available >= 0

\* all funds withdrawn and the withdrawal under dispute: available is 0
C25_Witness ==
  /\ ~negative
  /\ Succeeded
  /\ last.ev.type_ = "Dispute"
  /\ last.ev.client \notin depdisputed
  /\ accounts[last.ev.client].available = 0
  /\ accounts[last.ev.client].held > 0
  /\ accounts[last.ev.client].total = accounts[last.ev.client].held

====
